---------------------------- MODULE Spec2Model ----------------------------
(***************************************************************************)
(* Model of app/agent/base.py: the RestaurantRecommender agent.            *)
(*                                                                         *)
(*   Spec            the request lifecycle: handle_request and invoke, run *)
(*                   by NumCalls concurrent calls on one shared agent      *)
(*   SpecLoop        one call, with the reasoning loop taken step by step  *)
(*                   and the fairness of the event loop                    *)
(*   SpecValidation  one call on an agent whose _validate_request hook is  *)
(*                   overridden by a validator that can reject             *)
(*   SpecDispatch    execute_command, the command dispatcher               *)
(*   SpecNormalizer  OpenAILoggingHandler.on_llm_end                       *)
(*                                                                         *)
(* Text is modelled as a sequence of words (a Python str); the empty text  *)
(* is <<>>.  An optional value (Optional[str], None) is a record           *)
(* [some, val].  Code that runs between two awaits runs atomically under   *)
(* asyncio, so a call is one action up to its await and one action after.  *)
(***************************************************************************)
EXTENDS Integers, Sequences, FiniteSets, TLC

VARIABLES
    memory,         \* self.memory: "none" or "configured" (set by __init__)
    tools,          \* self.tools, shared by every call
    prompt,         \* the input variables of AGENT_PROMPT, shared by every call
    nextThreadId,   \* source of fresh thread ids (uuid.uuid4())
    llmCalls,       \* number of reasoning-loop runs started on the executor
    pc,             \* per call: position of the coroutine
    via,            \* per call: entered through handle_request or invoke
    request,        \* per call: the request argument of handle_request
    state,          \* per call: the AgentState (messages, thread_id, output)
    input_dict,     \* per call: the input handed to agent_executor.ainvoke
    memLoad,        \* per call: what load_memory_variables did
    phase,          \* per call: the driver states visited, in order
    writes,         \* per call: the places that assigned state.output, in order
    validator,      \* which _validate_request the agent has: "builtin", "override"
    verdict,        \* per call: what _validate_request answered
    scratchpad,     \* per call: the steps the reasoning loop has taken so far
    loopResult,     \* per call: how the awaited reasoning loop ended
    parseResult,    \* per call: what command_parser.parse_request did
    response,       \* per call: the AgentResponse handle_request returned
    command,        \* execute_command: its argument
    cmdResponse,    \* execute_command: the AgentResponse it returned
    formatterCalls, \* execute_command: calls made to character.format_response
    llmResponse,    \* on_llm_end: its response argument
    llmEnd,         \* on_llm_end: how it ended and what it logged
    llmEndCount     \* on_llm_end: number of calls so far

vars == <<memory, tools, prompt, nextThreadId, llmCalls, pc, via, request, state, input_dict,
          memLoad, phase, writes, validator, verdict, scratchpad, loopResult,
          parseResult, response,
          command, cmdResponse, formatterCalls, llmResponse, llmEnd, llmEndCount>>

lifecycleVars == <<memory, tools, prompt, nextThreadId, llmCalls, pc, via, request, state,
                   input_dict, memLoad, phase, writes, validator, verdict,
                   scratchpad, loopResult, parseResult, response>>
dispatchVars == <<command, cmdResponse, formatterCalls>>
normalizerVars == <<llmResponse, llmEnd, llmEndCount>>

---------------------------------------------------------------------------
(* Bounds *)

NumCalls == 2
MaxLlmEnds == 2

Calls == 1..NumCalls

---------------------------------------------------------------------------
(* Text and optional values *)

None == [some |-> FALSE, val |-> <<>>]
Some(v) == [some |-> TRUE, val |-> v]

\* Python truthiness of an Optional[str]: None and "" are falsy.
Truthy(o) == o.some /\ o.val # <<>>

\* sub in txt (Python substring test, on words)
Contains(sub, txt) ==
    \E i \in 1..(Len(txt) - Len(sub) + 1) : SubSeq(txt, i, i + Len(sub) - 1) = sub

\* str.lower() of one word
LowerWord(w) ==
    CASE w \in {"Butter", "BUTTER"} -> "butter"
      [] w \in {"Chicken", "CHICKEN"} -> "chicken"
      [] w = "Help" -> "help"
      [] w = "Pizza" -> "pizza"
      [] OTHER -> w

\* str.lower()
Lower(txt) == [i \in 1..Len(txt) |-> LowerWord(txt[i])]

---------------------------------------------------------------------------
(* Data model *)

\* AgentState(messages=..., thread_id=...): output defaults to None
AgentState(messages, thread_id) ==
    [messages |-> messages, thread_id |-> thread_id, output |-> None]

\* AgentResponse(success=..., message=..., error=...): error and
\* parsed_command default to None
AgentResponse(success, message, error) ==
    [success |-> success, message |-> message, error |-> error,
     parsed_command |-> None]

NoState == AgentState(<<>>, 0)
NoInput == [k \in {} |-> <<>>]
NoResponse == AgentResponse(FALSE, <<>>, None)
NoResult == [kind |-> "none", hasOutput |-> FALSE, text |-> <<>>]

\* self.tools = get_restaurant_tools(): the names of the fixed tool list
ToolNames == <<"search_restaurants", "create_collection",
               "create_collection_with_restaurants">>

\* The variables of AGENT_PROMPT: {tools}, {context}, {input}, {tool_names},
\* {agent_scratchpad}
PromptVariables == {"tools", "context", "input", "tool_names", "agent_scratchpad"}

---------------------------------------------------------------------------
(* Inputs and collaborators' replies *)

\* request arguments: a text, the empty text, and a value that is no str
\* (AgentState's construction rejects its content)
Requests ==
    { [isText |-> TRUE, text |-> <<"find", "pizza">>],
      [isText |-> TRUE, text |-> <<>>],
      [isText |-> FALSE, text |-> <<>>] }

UserMessage(text) == [role |-> "user", content |-> text]

\* states handed to invoke by a direct caller
DirectStates ==
    { AgentState(<<>>, 0),
      AgentState(<<UserMessage(<<"find", "pizza">>)>>, 0),
      AgentState(<<UserMessage(<<"find", "pizza">>), UserMessage(<<"thanks">>)>>, 0) }

\* memory.load_memory_variables(input_dict): raises, or returns a dict whose
\* enhanced_context is missing (.get gives None) or a text
MemoryReplies ==
    { [raised |-> TRUE, enhanced_context |-> None],
      [raised |-> FALSE, enhanced_context |-> None],
      [raised |-> FALSE, enhanced_context |-> Some(<<"Restaurant IDs for Collection:", "r1">>)] }

\* str(e) of the exceptions of the request path
ValidationErrorText == <<"1 validation error for AgentState">>
IndexErrorText == <<"list index out of range">>
MissingContextText == <<"Input to PromptTemplate is missing variables", "context">>
LoopErrorTexts == { <<"Connection error.">>, <<>> }

\* the texts a finished reasoning loop reports as its output
LoopOutputs == { <<"Try", "Pizzeria", "Uno">>, <<>> }

\* command_parser.parse_request(request): raises or returns a command
ParseOutcomes == {"raised", "SearchCommand"}

---------------------------------------------------------------------------
(* invoke *)

ErrorPrefix == <<"Error processing request:">>
TimeoutMessage == <<"Agent execution timed out after 20 seconds">>
ValidationMessage == <<"Request validation failed">>
NoOutputDefault == <<"No output generated">>

\* _validate_request: the validator is commented out
ValidateRequest(st) == TRUE

\* is_valid, reason = self.validator.validate_request(request): what the
\* commented-out validator would answer once it is wired in
ValidatorVerdicts ==
    { [valid |-> TRUE, reason |-> <<>>],
      [valid |-> FALSE, reason |-> <<"Request","is","off-topic">>] }

NoVerdict == [valid |-> TRUE, reason |-> <<>>]

\* the verdicts _validate_request can give on this agent
VerdictsOf(kind) ==
    IF kind = "builtin"
    THEN { [valid |-> ValidateRequest(NoState), reason |-> <<>>] }
    ELSE ValidatorVerdicts

\* the state after _validate_request: a rejecting validator has written its
\* reason (if not is_valid: state.output = reason)
Validated(st, v) ==
    IF v.valid THEN st ELSE [st EXCEPT !.output = Some(v.reason)]

\* thread_id=str(uuid.uuid4()) handing out an id already given
StaleThreadId(n) == 1

\* thread_id=str(uuid.uuid4()): the n-th id generated is a new one
FreshThreadId(n) == n

\* input_dict as built from the state
BaseInput(st) ==
    [input |-> st.messages[1].content,
     agent_scratchpad |-> <<>>,
     tools |-> tools,
     tool_names |-> tools,
     thread_id |-> st.thread_id]

\* input_dict["context"] = ctx
WithContext(d, ctx) ==
    [k \in DOMAIN d \cup {"context"} |-> IF k = "context" THEN ctx ELSE d[k]]

\* if self.memory: try: load_memory_variables ... except: continue
LoadMemory(mem, d, reply) ==
    IF mem = "none" THEN [input |-> d, memLoad |-> "skipped"]
    ELSE IF reply.raised THEN [input |-> d, memLoad |-> "raised"]
    ELSE IF Truthy(reply.enhanced_context)
         THEN [input |-> WithContext(d, reply.enhanced_context.val), memLoad |-> "loaded"]
         ELSE [input |-> d, memLoad |-> "loaded"]

\* OnInvokeError without the handler: the exception leaves invoke
OnInvokeErrorReraise(st, e) == [raised |-> TRUE, state |-> st, writes |-> <<>>]

\* except Exception as e: state.output = "Error processing request: ..."; return state
OnInvokeError(st, e) ==
    [raised |-> FALSE,
     state |-> [st EXCEPT !.output = Some(ErrorPrefix \o e)],
     writes |-> <<"handler">>]

\* if not self._validate_request(state): state.output = error_message; return
InvokeRejected(st) ==
    [pc |-> "returned",
     state |-> [st EXCEPT !.output = Some(ValidationMessage)],
     input |-> NoInput, memLoad |-> "unset",
     phase |-> <<"START", "VALIDATING", "FAILED">>,
     writes |-> <<"validation">>]

\* invoke after a passed validation, up to its await: input_dict, memory
InvokeAccepted(st, mem, reply) ==
    IF st.messages = <<>>
    THEN LET h == OnInvokeError(st, IndexErrorText) IN
         [pc |-> IF h.raised THEN "raised" ELSE "returned",
          state |-> h.state,
          input |-> NoInput, memLoad |-> "unset",
          phase |-> <<"START", "VALIDATING", "RUNNING", "FAILED">>,
          writes |-> h.writes]
    ELSE LET m == LoadMemory(mem, BaseInput(st), reply) IN
         [pc |-> "awaiting",
          state |-> st,
          input |-> m.input, memLoad |-> m.memLoad,
          phase |-> <<"START", "VALIDATING", "RUNNING">>,
          writes |-> <<>>]

\* InvokeBegin going on whatever the validator answered
InvokeBeginUnchecked(st, mem, reply, v) == InvokeAccepted(Validated(st, v), mem, reply)

\* invoke up to its await: validation, input_dict, memory context
InvokeBegin(st, mem, reply, v) ==
    IF ~v.valid
    THEN InvokeRejected(Validated(st, v))
    ELSE InvokeAccepted(st, mem, reply)

\* The prompt of the agent (create_react_agent fills tools and tool_names from
\* self.tools) needs every other variable of AGENT_PROMPT in its input
MissingVariables(d) == prompt \ (DOMAIN d \cup {"tools", "tool_names"})

\* AgentExecutor(max_iterations=5)
MaxIterations == 5

\* the output of a loop stopped by its iteration limit or its time limit
StoppedMessage == <<"Agent stopped due to iteration limit or time limit.">>

\* what a step that does not end the loop appends to the scratchpad: a tool
\* call with its Observation, or (handle_parsing_errors=True) a model output
\* that failed to parse, fed back as an Observation
StepKinds == {"action", "parse_error"}

\* ShouldContinue letting one step too many through
ShouldContinueOffByOne(n) == n <= MaxIterations

\* the loop takes another step while fewer than max_iterations are done
ShouldContinue(n) == n < MaxIterations

\* How the awaited agent_executor.ainvoke(input_dict) can end after the steps
\* in pad: rendering the prompt fails on a missing variable; otherwise, while
\* a step is left, the step is a Final Answer (the loop returns its text) or
\* raises; at any time the loop stops on its limits and returns the stopped
\* message, or the 20 s wait expires
LoopOutcomes(d, pad) ==
    IF MissingVariables(d) # {}
    THEN { [kind |-> "raise", hasOutput |-> FALSE, text |-> MissingContextText] }
    ELSE (IF ShouldContinue(Len(pad))
          THEN { [kind |-> "return", hasOutput |-> TRUE, text |-> t] : t \in LoopOutputs }
               \cup { [kind |-> "return", hasOutput |-> FALSE, text |-> <<>>] }
               \cup { [kind |-> "raise", hasOutput |-> FALSE, text |-> e] : e \in LoopErrorTexts }
          ELSE {})
         \cup { [kind |-> "return", hasOutput |-> TRUE, text |-> StoppedMessage] }
         \cup { [kind |-> "timeout", hasOutput |-> FALSE, text |-> <<>>] }

\* response.get("output", "No output generated")
GetOutput(r) == IF r.hasOutput THEN r.text ELSE NoOutputDefault

\* invoke after its await
InvokeEnd(st, r) ==
    CASE r.kind = "return" ->
           [raised |-> FALSE,
            state |-> [st EXCEPT !.output = Some(GetOutput(r))],
            phase |-> "SUCCEEDED", writes |-> <<"loop">>]
      [] r.kind = "timeout" ->
           [raised |-> FALSE,
            state |-> [st EXCEPT !.output = Some(TimeoutMessage)],
            phase |-> "TIMED_OUT", writes |-> <<"timeout">>]
      [] OTHER ->
           LET h == OnInvokeError(st, r.text) IN
           [raised |-> h.raised, state |-> h.state,
            phase |-> "FAILED", writes |-> h.writes]

---------------------------------------------------------------------------
(* handle_request *)

NoResponseMessage == <<"No response generated">>
NoOutputError == <<"Agent did not generate output">>

\* OnHandleRequestError without the handler: the exception leaves handle_request
OnHandleRequestErrorReraise(e) == [raised |-> TRUE, response |-> NoResponse]

\* except Exception as e: return AgentResponse(success=False, ...)
OnHandleRequestError(e) ==
    [raised |-> FALSE,
     response |-> AgentResponse(FALSE, ErrorPrefix \o e, Some(e))]

\* BuildResponse with a parsing failure reported as a failed request
BuildResponseParseFatal(output, parse) ==
    IF Truthy(output) /\ parse # "raised"
    THEN [AgentResponse(TRUE, output.val, None) EXCEPT !.parsed_command = Some(parse)]
    ELSE AgentResponse(FALSE, NoResponseMessage, Some(NoOutputError))

\* if result_state.output: ... else: ...   (parse is parse_request's outcome)
BuildResponse(output, parse) ==
    IF Truthy(output)
    THEN IF parse = "raised"
         THEN AgentResponse(TRUE, output.val, None)
         ELSE [AgentResponse(TRUE, output.val, None) EXCEPT !.parsed_command = Some(parse)]
    ELSE AgentResponse(FALSE, NoResponseMessage, Some(NoOutputError))

\* parse_request is called only when the output is truthy
ParseRecord(output, parse) == IF Truthy(output) THEN parse ELSE "notcalled"

\* handle_request after invoke has returned the state or raised e
AfterInvoke(raised, e, st, parse) ==
    IF raised
    THEN OnHandleRequestError(e) @@ [parse |-> "notcalled"]
    ELSE [raised |-> FALSE,
          response |-> BuildResponse(st.output, parse),
          parse |-> ParseRecord(st.output, parse)]

---------------------------------------------------------------------------
(* The request lifecycle *)

Constructed ==
    /\ memory \in {"none", "configured"}
    /\ verdict = [c \in Calls |-> NoVerdict]
    /\ tools = ToolNames
    /\ prompt = PromptVariables
    /\ nextThreadId = 1
    /\ llmCalls = 0
    /\ pc = [c \in Calls |-> "idle"]
    /\ via = [c \in Calls |-> "none"]
    /\ request = [c \in Calls |-> [isText |-> TRUE, text |-> <<>>]]
    /\ state = [c \in Calls |-> NoState]
    /\ input_dict = [c \in Calls |-> NoInput]
    /\ memLoad = [c \in Calls |-> "unset"]
    /\ phase = [c \in Calls |-> <<>>]
    /\ writes = [c \in Calls |-> <<>>]
    /\ scratchpad = [c \in Calls |-> <<>>]
    /\ loopResult = [c \in Calls |-> NoResult]
    /\ parseResult = [c \in Calls |-> "unset"]
    /\ response = [c \in Calls |-> NoResponse]
    /\ command = [type |-> "none"]
    /\ cmdResponse = NoResponse
    /\ formatterCalls = 0
    /\ llmResponse = [shape |-> "none"]
    /\ llmEnd = [raised |-> FALSE, log |-> <<>>]
    /\ llmEndCount = 0

\* the agent as shipped
Init == validator = "builtin" /\ Constructed

\* the agent with _validate_request overridden
InitValidation == validator = "override" /\ Constructed

\* what memory.load_memory_variables may answer on this agent
RepliesOf(mem) ==
    IF mem = "none" THEN {[raised |-> FALSE, enhanced_context |-> None]}
    ELSE MemoryReplies

\* handle_request(request), up to the await inside invoke (or to its return
\* when nothing is awaited)
HandleRequest(c) ==
    /\ pc[c] = "idle"
    /\ \E req \in Requests, reply \in RepliesOf(memory), parse \in ParseOutcomes,
          v \in VerdictsOf(validator) :
         /\ request' = [request EXCEPT ![c] = req]
         /\ via' = [via EXCEPT ![c] = "handle_request"]
         /\ IF ~req.isText
            THEN \* AgentState(...) raises a validation error
                 LET h == OnHandleRequestError(ValidationErrorText) IN
                 /\ pc' = [pc EXCEPT ![c] = IF h.raised THEN "raised" ELSE "done"]
                 /\ response' = [response EXCEPT ![c] = h.response]
                 /\ parseResult' = [parseResult EXCEPT ![c] = "notcalled"]
                 /\ UNCHANGED <<nextThreadId, state, input_dict, memLoad, phase,
                                writes, verdict>>
            ELSE LET st == AgentState(<<UserMessage(req.text)>>, FreshThreadId(nextThreadId))
                     b == InvokeBegin(st, memory, reply, v)
                     a == AfterInvoke(b.pc = "raised", IndexErrorText, b.state, parse)
                 IN
                 /\ nextThreadId' = nextThreadId + 1
                 /\ verdict' = [verdict EXCEPT ![c] = v]
                 /\ state' = [state EXCEPT ![c] = b.state]
                 /\ input_dict' = [input_dict EXCEPT ![c] = b.input]
                 /\ memLoad' = [memLoad EXCEPT ![c] = b.memLoad]
                 /\ phase' = [phase EXCEPT ![c] = b.phase]
                 /\ writes' = [writes EXCEPT ![c] = b.writes]
                 /\ IF b.pc = "awaiting"
                    THEN /\ pc' = [pc EXCEPT ![c] = "awaiting"]
                         /\ UNCHANGED <<response, parseResult>>
                    ELSE /\ pc' = [pc EXCEPT ![c] = IF a.raised THEN "raised" ELSE "done"]
                         /\ response' = [response EXCEPT ![c] = a.response]
                         /\ parseResult' = [parseResult EXCEPT ![c] = a.parse]
    /\ UNCHANGED <<memory, llmCalls, validator, scratchpad, loopResult>>
    /\ UNCHANGED <<tools, prompt, dispatchVars, normalizerVars>>

\* invoke(state) called directly, up to its await (or to its return)
Invoke(c) ==
    /\ pc[c] = "idle"
    /\ \E st \in DirectStates, reply \in RepliesOf(memory), v \in VerdictsOf(validator) :
         LET b == InvokeBegin(st, memory, reply, v) IN
         /\ via' = [via EXCEPT ![c] = "invoke"]
         /\ verdict' = [verdict EXCEPT ![c] = v]
         /\ pc' = [pc EXCEPT ![c] = b.pc]
         /\ state' = [state EXCEPT ![c] = b.state]
         /\ input_dict' = [input_dict EXCEPT ![c] = b.input]
         /\ memLoad' = [memLoad EXCEPT ![c] = b.memLoad]
         /\ phase' = [phase EXCEPT ![c] = b.phase]
         /\ writes' = [writes EXCEPT ![c] = b.writes]
    /\ UNCHANGED <<memory, nextThreadId, llmCalls, request, validator,
                   scratchpad, loopResult, parseResult, response>>
    /\ UNCHANGED <<tools, prompt, dispatchVars, normalizerVars>>

\* The awaited loop ends as r: invoke finishes, and a handle_request that
\* awaited it builds its response
Resume(c, r) ==
    /\ pc[c] = "awaiting"
    /\ r \in LoopOutcomes(input_dict[c], scratchpad[c])
    /\ LET e == InvokeEnd(state[c], r) IN
       /\ loopResult' = [loopResult EXCEPT ![c] = r]
       /\ state' = [state EXCEPT ![c] = e.state]
       /\ phase' = [phase EXCEPT ![c] = Append(@, e.phase)]
       /\ writes' = [writes EXCEPT ![c] = @ \o e.writes]
       /\ llmCalls' = IF MissingVariables(input_dict[c]) = {} THEN llmCalls + 1 ELSE llmCalls
       /\ IF via[c] = "invoke"
          THEN /\ pc' = [pc EXCEPT ![c] = IF e.raised THEN "raised" ELSE "returned"]
               /\ UNCHANGED <<response, parseResult>>
          ELSE \E parse \in ParseOutcomes :
                 LET a == AfterInvoke(e.raised, r.text, e.state, parse) IN
                 /\ pc' = [pc EXCEPT ![c] = IF a.raised THEN "raised" ELSE "done"]
                 /\ response' = [response EXCEPT ![c] = a.response]
                 /\ parseResult' = [parseResult EXCEPT ![c] = a.parse]
    /\ UNCHANGED <<memory, nextThreadId, via, request, input_dict, memLoad,
                   validator, verdict, scratchpad>>
    /\ UNCHANGED <<tools, prompt, dispatchVars, normalizerVars>>

\* the reasoning loop returns its result dict
AgentAnswers(c) == \E r \in LoopOutcomes(input_dict[c], scratchpad[c]) : r.kind = "return" /\ Resume(c, r)

\* asyncio.wait_for gives up after 20 s
WaitTimesOut(c) == \E r \in LoopOutcomes(input_dict[c], scratchpad[c]) : r.kind = "timeout" /\ Resume(c, r)

\* agent_executor.ainvoke raises
LoopRaises(c) == \E r \in LoopOutcomes(input_dict[c], scratchpad[c]) : r.kind = "raise" /\ Resume(c, r)

Next ==
    \E c \in Calls :
        \/ HandleRequest(c)
        \/ Invoke(c)
        \/ AgentAnswers(c)
        \/ WaitTimesOut(c)
        \/ LoopRaises(c)

Spec == Init /\ [][Next]_vars

---------------------------------------------------------------------------
(* The reasoning loop, step by step *)

\* one step of the awaited loop that does not end it: the model proposed a
\* tool call, or its output failed to parse; either way an Observation is
\* appended to the scratchpad and the step counts
LoopStep(c) ==
    /\ pc[c] = "awaiting"
    /\ MissingVariables(input_dict[c]) = {}
    /\ ShouldContinue(Len(scratchpad[c]))
    /\ \E k \in StepKinds : scratchpad' = [scratchpad EXCEPT ![c] = Append(@, k)]
    /\ UNCHANGED <<memory, nextThreadId, llmCalls, pc, via, request, state,
                   input_dict, memLoad, phase, writes, validator, verdict,
                   loopResult, parseResult, response>>
    /\ UNCHANGED <<tools, prompt, dispatchVars, normalizerVars>>

\* what a suspended call does next
Continue(c) == LoopStep(c) \/ AgentAnswers(c) \/ WaitTimesOut(c) \/ LoopRaises(c)

NextLoop ==
    \/ HandleRequest(1)
    \/ Invoke(1)
    \/ LoopStep(1)
    \/ AgentAnswers(1)
    \/ WaitTimesOut(1)
    \/ LoopRaises(1)

\* the event loop resumes a suspended coroutine, and the timer of
\* asyncio.wait_for fires
SpecLoop == Init /\ [][NextLoop]_vars /\ WF_vars(Continue(1))

\* the same call on an agent whose validator can reject
SpecValidation == InitValidation /\ [][NextLoop]_vars

---------------------------------------------------------------------------
(* execute_command *)

\* the values of the query fields (RestaurantQuery)
Queries ==
    { <<"find", "me", "good", "butter", "chicken", "in", "Delhi">>,
      <<"BUTTER", "CHICKEN">>,
      <<"Best", "Butter", "Chicken">>,
      <<"butter", "naan", "chicken">>,
      <<"chicken", "butter">>,
      <<"Pizza">>,
      <<"Karim's">>,
      <<"Moti", "Mahal", "Delux", "menu">>,
      <<>> }
Places == { None, Some(<<"Delhi">>) }
Cuisines == { None, Some(<<"Indian">>) }
PriceRanges == { None, Some(<<"moderate">>) }
Dietary == { None, Some(<<"vegetarian">>) }

RestaurantQuery(query, place, cuisine, price_range, dietary_restrictions) ==
    [query |-> query, place |-> place, cuisine |-> cuisine,
     price_range |-> price_range, dietary_restrictions |-> dietary_restrictions]

RestaurantQueries ==
    { RestaurantQuery(q, p, cu, pr, d) :
        q \in Queries, p \in Places, cu \in Cuisines, pr \in PriceRanges, d \in Dietary }

NoQuery == RestaurantQuery(<<>>, None, None, None, None)
NoTopic == <<>>

\* command objects: hasQuery = FALSE is a command whose query object is None
\* (reading its fields raises AttributeError)
Command(type, hasQuery, query, topic) ==
    [type |-> type, hasQuery |-> hasQuery, query |-> query, topic |-> topic]

SearchCommands ==
    { Command("SearchCommand", TRUE, q, NoTopic) : q \in RestaurantQueries }
    \cup { Command("SearchCommand", FALSE, NoQuery, NoTopic) }
RecommendationCommands ==
    { Command("RecommendationCommand", TRUE, q, NoTopic) :
        q \in { r \in RestaurantQueries :
                 r.cuisine = None /\ r.price_range = None /\ r.dietary_restrictions = None } }
Topics == { <<"help">>, <<"Help">>, <<"about">>, <<>> }
InformationalCommands ==
    { Command("InformationalCommand", FALSE, NoQuery, t) : t \in Topics }
OtherCommands ==
    { Command(t, FALSE, NoQuery, NoTopic) : t \in {"dict", "str", "NoneType", "RestaurantQuery"} }

\* character.format_response(topic): total, returns a text
FormatterReplies == { <<"I", "am", "your", "restaurant", "guide">>, <<>> }

AttributeErrorText == <<"'NoneType' object has no attribute 'query'">>

\* the example establishments of the mock results
ExampleNames == { <<"Karim's">>, <<"Punjabi", "By", "Nature">>, <<"Moti", "Mahal", "Delux">> }
SignaturePhrase == <<"butter", "chicken">>

\* x or default
OrElse(o, default) == IF Truthy(o) THEN o.val ELSE default

\* if field: response_msg += label + field
Labelled(label, o) == IF Truthy(o) THEN <<label>> \o o.val ELSE <<>>

\* lines 469-482
TopResults(q) ==
    <<"Top Results:">>
    \o <<"1.", "Karim's", "-">> \o OrElse(q.place, <<"Delhi">>)
    \o <<"4.2/5 | Indian Cuisine | Moderate Price",
         "Famous for authentic butter chicken and mughlai cuisine">>
    \o <<"2.", "Punjabi", "By", "Nature", "-">> \o OrElse(q.place, <<"Multiple Locations">>)
    \o <<"4.0/5 | North Indian | Mid-Range",
         "Known for rich, creamy butter chicken">>
    \o <<"3.", "Moti", "Mahal", "Delux", "-">> \o OrElse(q.place, <<"Delhi">>)
    \o <<"4.1/5 | Indian | Moderate",
         "Legendary restaurant, birthplace of butter chicken">>

\* lines 484-487
GenericResults(q) ==
    <<"Found restaurants matching your search!", "Here are some great options in">>
    \o OrElse(q.place, <<"your area">>) \o <<"for">> \o q.query
    \o <<"I'd be happy to provide more specific recommendations">>

\* lines 457-467
SearchHeader(q) ==
    <<"Searching for restaurants...", "Query:">> \o q.query
    \o Labelled("Location:", q.place)
    \o Labelled("Cuisine:", q.cuisine)
    \o Labelled("Price Range:", q.price_range)
    \o Labelled("Dietary Restrictions:", q.dietary_restrictions)

\* SearchMessage with the phrase looked up in the query as typed
SearchMessageCaseSensitive(q) ==
    SearchHeader(q)
    \o IF Contains(SignaturePhrase, q.query) THEN TopResults(q) ELSE GenericResults(q)

\* response_msg of the SearchCommand branch
SearchMessage(q) ==
    SearchHeader(q)
    \o IF Contains(SignaturePhrase, Lower(q.query)) THEN TopResults(q) ELSE GenericResults(q)

\* response_msg of the RecommendationCommand branch
RecommendationMessage(q) ==
    <<"Restaurant Recommendations", "Based on your request:">> \o q.query
    \o Labelled("Location:", q.place)
    \o <<"Here are some great options I'd recommend:",
         "Look for highly-rated local favorites",
         "Consider trying authentic cuisine specific to">>
    \o OrElse(q.place, <<"the area">>)
    \o <<"Check recent reviews for current quality",
         "Would you like me to search for something more specific?">>

HelpMessage ==
    <<"I can help you find great restaurants! I can:",
      "Search for restaurants by location and cuisine",
      "Find popular dining spots",
      "Recommend places based on your preferences",
      "Provide restaurant details and information",
      "Help with specific food cravings like \"best butter chicken\"",
      "Just ask me what you're looking for!">>

InvalidCommandError == <<"Invalid command type">>

\* InformationalBranch with the help text matched in any letter case
InformationalBranchAnyCase(topic, reply) ==
    IF Lower(topic) = <<"help">>
    THEN [response |-> AgentResponse(TRUE, HelpMessage, None), formatter |-> <<>>]
    ELSE [response |-> AgentResponse(TRUE, reply, None),
          formatter |-> <<[arg |-> topic, reply |-> reply]>>]

\* lines 510-525; reply is what format_response(topic) returns when called
InformationalBranch(topic, reply) ==
    IF topic = <<"help">>
    THEN [response |-> AgentResponse(TRUE, HelpMessage, None), formatter |-> <<>>]
    ELSE [response |-> AgentResponse(TRUE, reply, None),
          formatter |-> <<[arg |-> topic, reply |-> reply]>>]

\* UnknownBranch answering with the message as the error
UnknownBranchWrongError(type) ==
    AgentResponse(FALSE, <<"Unknown command type:", type>>, Some(<<"Unknown command type:", type>>))

\* lines 527-532
UnknownBranch(type) ==
    AgentResponse(FALSE, <<"Unknown command type:", type>>, Some(InvalidCommandError))

\* except Exception as e: return AgentResponse(success=False, message=str(e), error=str(e))
OnExecuteError(e) == AgentResponse(FALSE, e, Some(e))

\* execute_command(cmd): the response, the calls made to the character
\* formatter and the number of calls made to the model
ExecuteCommandResult(cmd, reply) ==
    CASE cmd.type = "SearchCommand" ->
           [response |-> IF cmd.hasQuery
                         THEN AgentResponse(TRUE, SearchMessage(cmd.query), None)
                         ELSE OnExecuteError(AttributeErrorText),
            formatter |-> <<>>, llm |-> 0]
      [] cmd.type = "RecommendationCommand" ->
           [response |-> IF cmd.hasQuery
                         THEN AgentResponse(TRUE, RecommendationMessage(cmd.query), None)
                         ELSE OnExecuteError(AttributeErrorText),
            formatter |-> <<>>, llm |-> 0]
      [] cmd.type = "InformationalCommand" ->
           InformationalBranch(cmd.topic, reply) @@ [llm |-> 0]
      [] OTHER ->
           [response |-> UnknownBranch(cmd.type), formatter |-> <<>>, llm |-> 0]

ExecuteCommand(cmd, reply) ==
    LET r == ExecuteCommandResult(cmd, reply) IN
    /\ command' = cmd
    /\ cmdResponse' = r.response
    /\ formatterCalls' = r.formatter
    /\ llmCalls' = llmCalls + r.llm
    /\ UNCHANGED <<memory, tools, prompt, nextThreadId, pc, via, request, state,
                   input_dict, memLoad, phase, writes, validator, verdict, scratchpad,
                   loopResult, parseResult, response>>
    /\ UNCHANGED normalizerVars

ExecuteSearch == \E cmd \in SearchCommands : ExecuteCommand(cmd, <<>>)
ExecuteRecommendation == \E cmd \in RecommendationCommands : ExecuteCommand(cmd, <<>>)
ExecuteInformational ==
    \E cmd \in InformationalCommands, reply \in FormatterReplies : ExecuteCommand(cmd, reply)
ExecuteOther == \E cmd \in OtherCommands : ExecuteCommand(cmd, <<>>)

NextDispatch ==
    \/ ExecuteSearch
    \/ ExecuteRecommendation
    \/ ExecuteInformational
    \/ ExecuteOther

SpecDispatch == Init /\ [][NextDispatch]_vars

---------------------------------------------------------------------------
(* OpenAILoggingHandler.on_llm_end *)

\* A message: whether it has an additional_kwargs attribute, what that dict
\* holds under function_call ("absent", a "dict", or a "str") and under
\* tool_calls ("absent", a "list", or a value json.dumps rejects), and its
\* content (None: no content attribute or an empty one)
Message(hasKwargs, function_call, tool_calls, content) ==
    [hasKwargs |-> hasKwargs, function_call |-> function_call,
     tool_calls |-> tool_calls, content |-> content]

Contents == { None, Some(<<"Try", "Pizzeria", "Uno">>) }

MessagesWithKwargs ==
    { Message(TRUE, f, t, c) :
        f \in {"absent", "dict", "str"},
        t \in {"absent", "list", "unserializable"},
        c \in Contents }
Messages == MessagesWithKwargs \cup { Message(FALSE, "absent", "absent", c) : c \in Contents }
NoMessage == Message(FALSE, "absent", "absent", None)

\* A generation: "chat" has a message, "text" has text, "content" has
\* content, "bare" has none of them
Generations ==
    { [kind |-> "chat", message |-> m] : m \in Messages }
    \cup { [kind |-> k, message |-> NoMessage] : k \in {"text", "content", "bare"} }

\* A response: the attributes hasattr finds, its generations, its own
\* additional_kwargs and content (as a message), and what serializing the
\* result of model_dump() / dict() does ("ok", "raises", "unserializable")
LlmResponse(shape, attrs, generations, message, dump) ==
    [shape |-> shape, attrs |-> attrs, generations |-> generations,
     message |-> message, dump |-> dump]

LlmResponses ==
    { LlmResponse("LLMResult", {"generations", "model_dump", "dict"}, gs, NoMessage, "ok") :
        gs \in { <<>>, << <<>> >> } \cup { << <<g>> >> : g \in Generations } }
    \cup { LlmResponse("AIMessage", {"additional_kwargs", "content", "model_dump", "dict"},
                       <<>>, m, "ok") : m \in MessagesWithKwargs }
    \cup { LlmResponse("BaseModel", {"model_dump", "dict"}, <<>>, NoMessage, d) :
             d \in {"ok", "raises", "unserializable"} }
    \cup { LlmResponse("DictOnly", {"dict"}, <<>>, NoMessage, d) :
             d \in {"ok", "raises", "unserializable"} }
    \cup { LlmResponse("str", {}, <<>>, NoMessage, "ok"),
           LlmResponse("None", {}, <<>>, NoMessage, "ok") }

\* A run of statements: the lines logged and the exception that ended it
Ran(log) == [log |-> log, exc |-> "none"]
Raised(log, exc) == [log |-> log, exc |-> exc]

\* a; b
Then(a, b) == IF a.exc # "none" THEN a ELSE [log |-> a.log \o b.log, exc |-> b.exc]

\* if 'function_call' in kwargs: ... func_call.get(...) ...
LogFunctionCall(m) ==
    CASE m.function_call = "absent" -> Ran(<<>>)
      [] m.function_call = "dict" -> Ran(<<"Function Call:">>)
      [] OTHER -> Raised(<<>>, "AttributeError")

\* if 'tool_calls' in kwargs: ... json.dumps(tool_calls) ...
LogToolCalls(m) ==
    CASE m.tool_calls = "absent" -> Ran(<<>>)
      [] m.tool_calls = "list" -> Ran(<<"Tool calls:">>)
      [] OTHER -> Raised(<<>>, "TypeError")

\* the additional_kwargs dict is non-empty
KwargsTruthy(m) == m.hasKwargs /\ (m.function_call # "absent" \/ m.tool_calls # "absent")

\* lines 57-70 (label "Message object:") and 84-96 (label "Response object:")
LogMessage(m, objectLabel) ==
    Then(IF KwargsTruthy(m) THEN Then(LogFunctionCall(m), LogToolCalls(m)) ELSE Ran(<<>>),
         IF Truthy(m.content) THEN Ran(<<"Response content:">>) ELSE Ran(<<objectLabel>>))

\* lines 52-78
LogGeneration(g) ==
    CASE g.kind = "chat" -> Then(Ran(<<"Found message in generation:">>),
                                 LogMessage(g.message, "Message object:"))
      [] g.kind = "text" -> Ran(<<"Response text:">>)
      [] g.kind = "content" -> Ran(<<"Generation content:">>)
      [] OTHER -> Ran(<<"Generation object:">>)

\* try: json.dumps(response.model_dump()) except Exception: ...
LogSerialized(r) ==
    IF r.dump = "ok" THEN Ran(<<"Full Response:">>)
    ELSE Ran(<<"Could not serialize response:", "Response string:">>)

\* lines 98-116
LogFallback(r) ==
    Then(Ran(<<"Fallback response handling">>),
         IF "model_dump" \in r.attrs THEN LogSerialized(r)
         ELSE IF "dict" \in r.attrs THEN LogSerialized(r)
         ELSE Ran(<<"Response:">>))

\* the body of the try block, lines 43-116
Inspect(r) ==
    Then(Ran(<<"Response type:">>),
         IF "generations" \in r.attrs /\ r.generations # <<>>
         THEN Then(Ran(<<"Handling LLMResult object">>),
                   IF r.generations[1] = <<>>
                   THEN Raised(<<>>, "IndexError")
                   ELSE LogGeneration(r.generations[1][1]))
         ELSE IF "additional_kwargs" \in r.attrs
         THEN Then(Ran(<<"Handling direct message response">>),
                   LogMessage(r.message, "Response object:"))
         ELSE LogFallback(r))

\* OnInspectError without the handler: the exception leaves on_llm_end
OnInspectErrorReraise(a) == a

\* except Exception as e: log the error, the type, the attributes, the raw response
OnInspectError(a) ==
    IF a.exc = "none" THEN a
    ELSE Ran(a.log \o <<"Error logging response:", "Response type:",
                        "Response attributes:", "Raw Response:">>)

\* on_llm_end(response): what it logged and whether an exception left it
OnLlmEndResult(r) ==
    LET a == Then(Then(Ran(<<"LLM Response:">>), OnInspectError(Inspect(r))),
                  Ran(<<"====">>))
    IN [raised |-> a.exc # "none", log |-> a.log]

OnLlmEnd ==
    /\ llmEndCount < MaxLlmEnds
    /\ \E r \in LlmResponses :
         /\ llmResponse' = r
         /\ llmEnd' = OnLlmEndResult(r)
    /\ llmEndCount' = llmEndCount + 1
    /\ UNCHANGED <<lifecycleVars, dispatchVars>>

NextNormalizer == OnLlmEnd

SpecNormalizer == Init /\ [][NextNormalizer]_vars

---------------------------------------------------------------------------
(* Properties of the request lifecycle *)

Terminal == {"SUCCEEDED", "TIMED_OUT", "FAILED"}

\* the call has left handle_request (returned or raised)
Left(c) == via[c] = "handle_request" /\ pc[c] \in {"done", "raised"}

\* invoke ran in the call and has returned its state
InvokeReturned(c) == pc[c] \in {"returned", "done"} /\ phase[c] # <<>>

\* C1 (as claimed): handle_request returns a response and never raises, and
\* whenever the state construction, the loop driver or the command parser
\* raised, the response has success = FALSE and carries the exception's text
\* as its error.
C1_EveryExceptionIsAFailure ==
    \A c \in Calls :
        Left(c) =>
            /\ pc[c] = "done"
            /\ ~request[c].isText =>
                   /\ ~response[c].success
                   /\ response[c].error = Some(ValidationErrorText)
            /\ loopResult[c].kind = "raise" =>
                   /\ ~response[c].success
                   /\ response[c].error = Some(loopResult[c].text)
            /\ parseResult[c] = "raised" => ~response[c].success

\* C1 (amended): handle_request returns a response and never raises.  An
\* exception that reaches its own handler (the state construction failing)
\* gives success = FALSE with the exception's text as error and inside the
\* message; an exception of the loop driver is absorbed by invoke into the
\* output, so the response has success = TRUE and carries the exception's
\* text in its message with no error; an exception of the command parser is
\* swallowed, the response stays success = TRUE without parsed_command.
C1_NeverRaises ==
    \A c \in Calls :
        Left(c) =>
            /\ pc[c] = "done"
            /\ ~request[c].isText =>
                   /\ ~response[c].success
                   /\ response[c].error = Some(ValidationErrorText)
                   /\ response[c].message = ErrorPrefix \o ValidationErrorText
            /\ loopResult[c].kind = "raise" =>
                   /\ response[c].success
                   /\ response[c].error = None
                   /\ response[c].message = ErrorPrefix \o loopResult[c].text
            /\ parseResult[c] = "raised" =>
                   /\ response[c].success
                   /\ response[c].parsed_command = None

\* C1 witness: one call whose state construction raised and one call whose
\* loop driver and command parser both raised have returned their responses.
C1_Witness ==
    \E c, d \in Calls :
        /\ pc[c] = "done" /\ ~request[c].isText /\ ~response[c].success
        /\ pc[d] = "done" /\ loopResult[d].kind = "raise"
        /\ loopResult[d].text = <<"Connection error.">>
        /\ parseResult[d] = "raised"

\* C3 (as claimed): when the 20 s wait expires, handle_request returns
\* success = FALSE with an error that contains the timeout message.
C3_TimeoutIsAFailure ==
    \A c \in Calls :
        (Left(c) /\ loopResult[c].kind = "timeout") =>
            /\ pc[c] = "done"
            /\ ~response[c].success
            /\ response[c].error.some
            /\ Contains(TimeoutMessage, response[c].error.val)

\* C4: once invoke has returned, the envelope is decided by the output alone:
\* a non-empty output gives success = TRUE with message = output and no
\* error, parsed_command being attached exactly when parse_request did not
\* raise; an empty output gives success = FALSE with the fixed message and an
\* error.
C4_EnvelopeFollowsOutput ==
    \A c \in Calls :
        (Left(c) /\ InvokeReturned(c)) =>
            IF Truthy(state[c].output)
            THEN /\ response[c].success
                 /\ response[c].message = state[c].output.val
                 /\ response[c].error = None
                 /\ parseResult[c] \in ParseOutcomes
                 /\ response[c].parsed_command.some <=> parseResult[c] # "raised"
            ELSE /\ ~response[c].success
                 /\ response[c].message = NoResponseMessage
                 /\ response[c].error.some
                 /\ parseResult[c] = "notcalled"

\* C4 witness: a call answered the timeout text with success = TRUE although
\* the parser raised, and another call with an empty output was refused.
C4_Witness ==
    \E c, d \in Calls :
        /\ pc[c] = "done" /\ loopResult[c].kind = "timeout"
        /\ parseResult[c] = "raised"
        /\ response[c].success /\ response[c].message = TimeoutMessage
        /\ pc[d] = "done" /\ loopResult[d].kind = "return"
        /\ state[d].output = Some(<<>>)
        /\ ~response[d].success

\* C5 (as claimed): when load_memory_variables raised, the loop gets an input
\* without a context field and invoke returns a state whose output was
\* written by the loop's result, not by invoke's exception handler.
C5_MemoryFailureIsHarmless ==
    \A c \in Calls :
        memLoad[c] = "raised" =>
            /\ "context" \notin DOMAIN input_dict[c]
            /\ pc[c] # "raised"
            /\ InvokeReturned(c) => writes[c] = <<"loop">>

\* C10: a run of invoke visits START, VALIDATING, RUNNING and then exactly
\* one of SUCCEEDED, TIMED_OUT, FAILED; invoke never raises; state.output is
\* not written before the run ends, is written exactly once by then, and is
\* not None when invoke returns.
C10_InvokeLifecycle ==
    \A c \in Calls :
        /\ pc[c] # "raised"
        /\ pc[c] = "idle" => phase[c] = <<>>
        /\ pc[c] = "awaiting" =>
               /\ phase[c] = <<"START", "VALIDATING", "RUNNING">>
               /\ writes[c] = <<>>
               /\ state[c].output = None
        /\ InvokeReturned(c) =>
               /\ Len(phase[c]) = 4
               /\ SubSeq(phase[c], 1, 3) = <<"START", "VALIDATING", "RUNNING">>
               /\ phase[c][4] \in Terminal
               /\ Len(writes[c]) = 1
               /\ state[c].output.some
        /\ pc[c] = "returned" => InvokeReturned(c)

\* C10 witness: a direct invoke on an empty messages list returned FAILED
\* while another run ended TIMED_OUT.
C10_Witness ==
    \E c, d \in Calls :
        /\ pc[c] = "returned" /\ state[c].messages = <<>>
        /\ phase[c][4] = "FAILED" /\ state[c].output.some
        /\ InvokeReturned(d) /\ phase[d][4] = "TIMED_OUT"

---------------------------------------------------------------------------
(* Properties of execute_command *)

Executed(type) == command.type = type

\* the invariant of AgentResponse: success implies a non-empty message and no
\* error; failure implies an error
EnvelopeInvariant(r) ==
    /\ r.success => (r.message # <<>> /\ r.error = None)
    /\ ~r.success => r.error.some

\* C2 (as claimed): every response returned by handle_request or
\* execute_command satisfies the envelope invariant.
C2_EnvelopeInvariant ==
    /\ \A c \in Calls : pc[c] = "done" => EnvelopeInvariant(response[c])
    /\ command.type # "none" => EnvelopeInvariant(cmdResponse)

\* some example name occurs in the text
MentionsExample(txt) == \E n \in ExampleNames : Contains(n, txt)

\* the query's own fields, which the message echoes
EchoedFields(q) ==
    { q.query, OrElse(q.place, <<>>), OrElse(q.cuisine, <<>>),
      OrElse(q.price_range, <<>>), OrElse(q.dietary_restrictions, <<>>) }

\* what C6 says of the signature branch, and of the model not being called
C6_SignatureBranch ==
    (Executed("SearchCommand") /\ command.hasQuery
        /\ Contains(SignaturePhrase, Lower(command.query.query))) =>
        /\ cmdResponse.success
        /\ \A n \in ExampleNames : Contains(n, cmdResponse.message)
        /\ Truthy(command.query.place) =>
               Contains(command.query.place.val, cmdResponse.message)

\* C6 (as claimed): a query containing "butter chicken" in any letter case
\* gives a success message with all three example names (and the place when
\* given); every other query gives the generic "Found restaurants" message,
\* which contains none of the three example names; the model is not called.
C6_SearchIsMock ==
    /\ llmCalls = 0
    /\ C6_SignatureBranch
    /\ (Executed("SearchCommand") /\ command.hasQuery
           /\ ~Contains(SignaturePhrase, Lower(command.query.query))) =>
           /\ cmdResponse.success
           /\ Contains(<<"Found restaurants matching your search!">>, cmdResponse.message)
           /\ ~MentionsExample(cmdResponse.message)

\* C6 (amended): as claimed for the signature branch and the model; every
\* other query gives the generic "Found restaurants" message without the
\* example result list, and an example name occurs in it only when one of
\* the command's own echoed fields contains that name.
C6_SearchIsMockAmended ==
    /\ llmCalls = 0
    /\ C6_SignatureBranch
    /\ (Executed("SearchCommand") /\ command.hasQuery
           /\ ~Contains(SignaturePhrase, Lower(command.query.query))) =>
           /\ cmdResponse.success
           /\ Contains(<<"Found restaurants matching your search!">>, cmdResponse.message)
           /\ ~Contains(<<"Top Results:">>, cmdResponse.message)
           /\ \A n \in ExampleNames :
                  Contains(n, cmdResponse.message) =>
                      \E f \in EchoedFields(command.query) : Contains(n, f)

\* C6 witness: "Best Butter Chicken" with place Delhi was answered with the
\* three example names and the place.
C6_Witness ==
    /\ Executed("SearchCommand")
    /\ command.query.query = <<"Best", "Butter", "Chicken">>
    /\ command.query.place = Some(<<"Delhi">>)
    /\ cmdResponse.success
    /\ Contains(<<"Moti", "Mahal", "Delux", "-", "Delhi">>, cmdResponse.message)

\* C7: an InformationalCommand with topic "help" returns success with the
\* fixed capability summary and the formatter is not called; any other topic
\* calls format_response(topic) once and returns success with exactly its
\* result as the message.
C7_Informational ==
    Executed("InformationalCommand") =>
        /\ cmdResponse.success
        /\ cmdResponse.error = None
        /\ IF command.topic = <<"help">>
           THEN /\ cmdResponse.message = HelpMessage
                /\ formatterCalls = <<>>
           ELSE /\ Len(formatterCalls) = 1
                /\ formatterCalls[1].arg = command.topic
                /\ cmdResponse.message = formatterCalls[1].reply

\* C7 witness: topic "Help" (not the exact word) went to the formatter and its
\* reply came back as the message.
C7_Witness ==
    /\ Executed("InformationalCommand")
    /\ command.topic = <<"Help">>
    /\ Len(formatterCalls) = 1
    /\ cmdResponse.message = <<"I", "am", "your", "restaurant", "guide">>

\* C8: a command that is no Search-, Recommendation- or InformationalCommand
\* is answered (not raised) with success = FALSE and the error
\* "Invalid command type".
C8_UnknownCommand ==
    (command.type \notin {"none", "SearchCommand", "RecommendationCommand",
                          "InformationalCommand"}) =>
        /\ ~cmdResponse.success
        /\ cmdResponse.error = Some(InvalidCommandError)
        /\ formatterCalls = <<>>

\* C8 witness: a plain dict was dispatched and refused.
C8_Witness ==
    /\ Executed("dict")
    /\ ~cmdResponse.success
    /\ cmdResponse.message = <<"Unknown command type:", "dict">>

---------------------------------------------------------------------------
(* Properties of on_llm_end *)

\* C9: on_llm_end never raises, whatever the response: nested generations
\* (an empty inner list included), only additional_kwargs, a plain string,
\* None, or an object whose model_dump()/dict() serialization raises; it
\* always logs its closing line, and a failed inspection is logged.
C9_NormalizerNeverRaises ==
    llmEndCount > 0 =>
        /\ ~llmEnd.raised
        /\ llmEnd.log[Len(llmEnd.log)] = "===="
        /\ Inspect(llmResponse).exc # "none" =>
               Contains(<<"Error logging response:">>, llmEnd.log)

\* C9 witness: a response whose generations hold an empty inner list was
\* handled: the IndexError was logged and on_llm_end returned.
C9_Witness ==
    /\ llmEndCount > 0
    /\ llmResponse.generations = << <<>> >>
    /\ ~llmEnd.raised
    /\ Contains(<<"Handling LLMResult object", "Error logging response:">>, llmEnd.log)

---------------------------------------------------------------------------
(* Properties of the reasoning loop *)

\* the loop of the call returned a Final Answer
GaveFinalAnswer(c) ==
    /\ loopResult[c].kind = "return"
    /\ loopResult[c].hasOutput
    /\ loopResult[c].text # StoppedMessage

C11_Safe ==
    \A c \in Calls :
        /\ Len(scratchpad[c]) <= 5
        /\ pc[c] # "raised"
        /\ GaveFinalAnswer(c) =>
               /\ Len(scratchpad[c]) < 5
               /\ state[c].output = Some(loopResult[c].text)
               /\ phase[c][Len(phase[c])] = "SUCCEEDED"
        /\ (InvokeReturned(c) /\ Len(scratchpad[c]) = 5) =>
               state[c].output \in {Some(StoppedMessage), Some(TimeoutMessage)}

C11_EndsAtOnce ==
    \A c \in Calls : pc[c] # "awaiting" => scratchpad'[c] = scratchpad[c]

\* C11: within one invoke the loop takes at most 5 steps, steps whose output
\* failed to parse included; a Final Answer is given within those steps,
\* becomes the output and no step follows it; after 5 steps the run ends with
\* the stopped message or the timeout message, never with an exception; and
\* every suspended invoke eventually returns.
C11_BoundedLoop ==
    /\ []C11_Safe
    /\ [][C11_EndsAtOnce]_vars
    /\ \A c \in Calls : (pc[c] = "awaiting") ~> (pc[c] \in {"returned", "done"})

\* C11 witness: a run used all 5 steps, parse errors among them, and returned
\* the stopped message as its output.
C11_Witness ==
    \E c \in Calls :
        /\ InvokeReturned(c)
        /\ scratchpad[c] = <<"parse_error", "action", "parse_error", "parse_error", "action">>
        /\ state[c].output = Some(StoppedMessage)

---------------------------------------------------------------------------
(* Properties of a failed validation *)

\* _validate_request rejected the state of the call
Rejected(c) == pc[c] # "idle" /\ ~verdict[c].valid

\* invoke left by the validation branch, with nothing else done
FailedDirectly(c) ==
    /\ pc[c] \in {"returned", "done"}
    /\ phase[c] = <<"START", "VALIDATING", "FAILED">>
    /\ memLoad[c] = "unset"
    /\ input_dict[c] = NoInput
    /\ scratchpad[c] = <<>>
    /\ loopResult[c] = NoResult
    /\ llmCalls = 0

---------------------------------------------------------------------------
(* Properties of concurrent calls *)

\* handle_request of the call built its AgentState
BuiltState(c) == via[c] = "handle_request" /\ state[c] # NoState

\* everything that belongs to one call
Own(c) ==
    <<pc[c], via[c], request[c], state[c], input_dict[c], memLoad[c], verdict[c],
      phase[c], writes[c], scratchpad[c], loopResult[c], parseResult[c], response[c]>>

\* what the response of a finished handle_request was computed from
Inputs(c) == <<request[c], loopResult[c], parseResult[c]>>

C13_Isolated ==
    /\ \A c, d \in Calls :
           (c # d /\ BuiltState(c) /\ BuiltState(d)) =>
               state[c].thread_id # state[d].thread_id
    /\ \A c \in Calls :
           BuiltState(c) =>
               /\ state[c].messages = <<UserMessage(request[c].text)>>
               /\ pc[c] = "awaiting" =>
                      /\ state[c].output = None
                      /\ input_dict[c].input = request[c].text
                      /\ input_dict[c].thread_id = state[c].thread_id
    /\ \A c, d \in Calls :
           (pc[c] = "done" /\ pc[d] = "done" /\ Inputs(c) = Inputs(d)) =>
               response[c] = response[d]
    /\ tools = ToolNames
    /\ prompt = PromptVariables

C13_OneCallPerStep ==
    /\ \E c \in Calls : \A d \in Calls \ {c} : Own(d)' = Own(d)
    /\ tools' = tools
    /\ prompt' = prompt

\* C13: concurrent calls on one agent are independent under every
\* interleaving: the states built by handle_request carry distinct thread
\* ids, each holds the call's own message and stays untouched while the call
\* is suspended, every step changes the data of one call only, the tool list
\* and the prompt variables stay as constructed, and two finished calls with
\* the same request, loop outcome and parse outcome have the same response.
C13_Independent == []C13_Isolated /\ [][C13_OneCallPerStep]_vars

\* C13 witness: on an agent without memory, a handle_request that started
\* later has failed in its loop and answered while an earlier one is still
\* suspended, its state untouched.
C13_Witness ==
    \E c, d \in Calls :
        /\ memory = "none"
        /\ BuiltState(c) /\ BuiltState(d)
        /\ pc[c] = "awaiting" /\ state[c].output = None
        /\ pc[d] = "done" /\ loopResult[d].kind = "raise"
        /\ state[d].thread_id > state[c].thread_id

===========================================================================
